---------------------------- MODULE Spec2Model ----------------------------
(***************************************************************************)
(* Model of question_cli (src/src/main.rs): the annotation session of the  *)
(* terminal tool.  The state is the App struct plus the content of the     *)
(* file at json_path and the outcome of App::run.  One action is one       *)
(* iteration of the loop of App::run: draw, read one event, handle it.     *)
(***************************************************************************)
EXTENDS Integers, Sequences, FiniteSets, TLC

(***************************************************************************)
(* Bounds of the model.                                                    *)
(***************************************************************************)
\* longest question list a stored file holds at launch
MaxQuestions == 2
\* Utc::now() returns one of 1..MaxTime
MaxTime == 2

(***************************************************************************)
(* Option<T> of Rust.                                                      *)
(***************************************************************************)
None == [some |-> FALSE]
Some(v) == [some |-> TRUE, val |-> v]
is_none(o) == ~o.some
is_some(o) == o.some

(***************************************************************************)
(* JSON text, as serde_json reads and writes it.  A document is a sequence *)
(* of tokens: the opening bracket, one object per question, the closing    *)
(* bracket.  An object is the ordered list of its members.                 *)
(***************************************************************************)
JOpen == [t |-> "["]
JClose == [t |-> "]"]
JNull == [t |-> "null"]
JBool(b) == [t |-> "bool", b |-> b]
JStr(s) == [t |-> "str", s |-> s]
JArr(a) == [t |-> "arr", a |-> a]
JMember(k, v) == [k |-> k, v |-> v]
JObj(members) == [t |-> "obj", members |-> members]

HasKey(obj, k) == \E i \in 1..Len(obj.members) : obj.members[i].k = k
Member(obj, k) == obj.members[CHOOSE i \in 1..Len(obj.members) : obj.members[i].k = k].v


\* a bug: None is written as the placeholder false
ser_option_bool_placeholder(o) == IF is_none(o) THEN JBool(FALSE) ELSE JBool(o.val)

\* #[derive(Serialize)] on Option<T>: None is written as null, Some(v) as v
ser_option_bool(o) == IF is_none(o) THEN JNull ELSE JBool(o.val)
ser_option_string(o) == IF is_none(o) THEN JNull ELSE JStr(o.val)

\* #[derive(Serialize)] on Question: every field, in declaration order
ser_question(q) ==
    JObj(<< JMember("question", JStr(q.question)),
            JMember("options", JArr([i \in 1..Len(q.options) |-> JStr(q.options[i])])),
            JMember("answer", JStr(q.answer)),
            JMember("is_higher_order", ser_option_bool(q.is_higher_order)),
            JMember("human_answer", ser_option_string(q.human_answer)) >>)

\* serde_json::to_string_pretty(&questions): total on Vec<Question>
to_string_pretty(qs) ==
    <<JOpen>> \o [i \in 1..Len(qs) |-> ser_question(qs[i])] \o <<JClose>>

\* #[derive(Deserialize)] on Option<T>: a missing member and null are None
de_option(obj, k) ==
    IF ~HasKey(obj, k) THEN None
    ELSE IF Member(obj, k) = JNull THEN None
    ELSE IF Member(obj, k).t = "bool" THEN Some(Member(obj, k).b)
    ELSE Some(Member(obj, k).s)

de_question(obj) ==
    [ question        |-> Member(obj, "question").s,
      options         |-> [i \in 1..Len(Member(obj, "options").a) |->
                              Member(obj, "options").a[i].s],
      answer          |-> Member(obj, "answer").s,
      is_higher_order |-> de_option(obj, "is_higher_order"),
      human_answer    |-> de_option(obj, "human_answer") ]

\* serde_json::from_str::<Questions> succeeds on a complete array of objects
\* that hold the three required members
Parsable(data) ==
    /\ Len(data) >= 2
    /\ data[1] = JOpen
    /\ data[Len(data)] = JClose
    /\ \A i \in 2..(Len(data) - 1) :
          /\ data[i].t = "obj"
          /\ HasKey(data[i], "question")
          /\ HasKey(data[i], "options")
          /\ HasKey(data[i], "answer")

from_str(data) == [i \in 1..(Len(data) - 2) |-> de_question(data[i + 1])]

(***************************************************************************)
(* The pure functions of main.rs.                                          *)
(***************************************************************************)
\* usize positions are 0-based; TLA+ sequences are 1-based
At(qs, index) == qs[index + 1]

\* questions.iter().filter(..).count()
get_num_answered(m, qs) ==
    IF m = "Classify"
    THEN Cardinality({i \in 1..Len(qs) : is_some(qs[i].is_higher_order)})
    ELSE Cardinality({i \in 1..Len(qs) : is_some(qs[i].human_answer)})

\* the `_ => 100000` arm
NoIndex == 100000


\* a bug: the symbol is taken for the position itself
option_index_zero_based(option) ==
    CASE option = "1" -> 1
      [] option = "2" -> 2
      [] option = "3" -> 3
      [] option = "4" -> 4
      [] option = "5" -> 5
      [] option = "6" -> 6
      [] OTHER -> NoIndex

option_index(option) ==
    CASE option = "1" -> 0
      [] option = "2" -> 1
      [] option = "3" -> 2
      [] option = "4" -> 3
      [] option = "5" -> 4
      [] option = "6" -> 5
      [] OTHER -> NoIndex


\* a bug: a position past the end is clamped to the last option
get_answer_from_alphanum_option_clamped(option, question) ==
    IF option_index(option) < Len(question.options)
    THEN Some(question.options[option_index(option) + 1])
    ELSE IF Len(question.options) > 0 /\ option_index(option) # NoIndex
         THEN Some(question.options[Len(question.options)])
         ELSE None

get_answer_from_alphanum_option(option, question) ==
    IF option_index(option) < Len(question.options)
    THEN Some(question.options[option_index(option) + 1])
    ELSE None


\* a bug: saturating_sub in place of the wrap to the last question
decrement_index_clamped(index, len) == IF index - 1 >= 0 THEN index - 1 ELSE 0

decrement_index(index, len) == IF index - 1 >= 0 THEN index - 1 ELSE len - 1


\* a bug: the modulo is forgotten
increment_index_unwrapped(index, len) == index + 1

increment_index(index, len) == (index + 1) % len

increment_num_answered(n) == n + 1

(***************************************************************************)
(* The session state.                                                      *)
(***************************************************************************)
VARIABLES
    questions,       \* App.questions
    question_index,  \* App.question_index
    mode,            \* App.mode
    message,         \* App.message: <<>> is the empty string
    exit,            \* App.exit
    num_answered,    \* App.num_answered
    file,            \* content of the file at App.json_path
    event,           \* the last event read by handle_events
    save_result,     \* outcome of the save_json call of the last event
    result,          \* outcome of App::run
    played           \* how much of Scenario the session has played so far

vars == << questions, question_index, mode, message, exit, num_answered,
           file, event, save_result, result, played >>

Modes == {"Classify", "Answer"}

\* the events of the scripted session [Next, SelectOption(1), Previous,
\* SelectOption(2)], as the keys that send them
Scenario == <<"Right", "1", "Left", "2">>

\* played counts the events of a session for as long as they are the
\* scenario's, and is -1 once the session has left the scenario
Track(n, e) ==
    IF n >= 0 /\ n < Len(Scenario) /\ e = Scenario[n + 1] THEN n + 1 ELSE -1
Times == 1..MaxTime

(***************************************************************************)
(* Files found at json_path at launch.                                     *)
(***************************************************************************)
\* a question nobody annotated: the optional members are missing
FreshObj ==
    JObj(<< JMember("question", JStr("q1")),
            JMember("options", JArr(<<JStr("a"), JStr("b")>>)),
            JMember("answer", JStr("a")) >>)

\* a question annotated in both modes by an earlier session
DoneObj ==
    JObj(<< JMember("question", JStr("q2")),
            JMember("options", JArr(<<JStr("a"), JStr("b"), JStr("c")>>)),
            JMember("answer", JStr("c")),
            JMember("is_higher_order", JBool(TRUE)),
            JMember("human_answer", JStr("c")) >>)

\* a hand-edited question: a null classification, an answer that is no option
StrayObj ==
    JObj(<< JMember("question", JStr("q3")),
            JMember("options", JArr(<<JStr("a"), JStr("b")>>)),
            JMember("answer", JStr("b")),
            JMember("is_higher_order", JNull),
            JMember("human_answer", JStr("z")) >>)

FileObjects == {FreshObj, DoneObj, StrayObj}

\* a file nobody annotated yet
FreshObjs(k) == [i \in 1..k |-> FreshObj]

\* a file an earlier session left partly annotated
ResumedCycle == <<DoneObj, FreshObj, StrayObj>>
ResumedObjs(k) == [i \in 1..k |-> ResumedCycle[((i - 1) % Len(ResumedCycle)) + 1]]

\* the empty list, every list of one question, and for each longer length the
\* fresh and the resumed list
InitObjs ==
    {<<>>} \cup {<<o>> : o \in FileObjects}
           \cup {FreshObjs(k) : k \in 2..MaxQuestions}
           \cup {ResumedObjs(k) : k \in 2..MaxQuestions}

InitFiles == {<<JOpen>> \o objs \o <<JClose>> : objs \in InitObjs}

(***************************************************************************)
(* main: parse the file, scan it once, build the App.                      *)
(***************************************************************************)
Init ==
    /\ file \in InitFiles
    /\ Parsable(file)
    /\ mode \in Modes
    /\ questions = from_str(file)
    /\ num_answered = get_num_answered(mode, questions)
    /\ question_index = 0
    /\ message = <<>>
    /\ exit = FALSE
    /\ event = "none"
    /\ save_result = "none"
    /\ result = "running"
    /\ played = 0

(***************************************************************************)
(* save_json and std::fs::write.  fs::write opens the file with truncation *)
(* and then writes the buffer: it fails before the truncation (the file    *)
(* keeps its content) or after it (the file holds a proper prefix of the   *)
(* buffer).                                                                *)
(***************************************************************************)
WriteOutcomes(data) ==
    {[kind |-> "ok", k |-> Len(data)], [kind |-> "open_err", k |-> 0]}
      \cup {[kind |-> "write_err", k |-> k] : k \in 0..(Len(data) - 1)}

fs_write(old, data, o) ==
    [ file |-> CASE o.kind = "ok" -> data
                 [] o.kind = "open_err" -> old
                 [] OTHER -> SubSeq(data, 1, o.k),
      kind |-> o.kind ]

save_json(old, qs, o) == fs_write(old, to_string_pretty(qs), o)

SaveOutcomes(qs) == WriteOutcomes(to_string_pretty(qs))

Confirmation(now) == <<"Progress saved at ", now>>

(***************************************************************************)
(* The methods of App, as functions from the fields they read to the       *)
(* fields they write.                                                      *)
(***************************************************************************)

\* a bug: the flag is set after the save, so `?` skips it on failure
App_exit_flag_last(old, qs, o) ==
    LET w == save_json(old, qs, o)
    IN  [exit |-> w.kind = "ok", file |-> w.file, kind |-> w.kind]

\* a bug: quit leaves without saving
App_exit_unsaved(old, qs, o) == [exit |-> TRUE, file |-> old, kind |-> "ok"]

\* App::exit: the flag is set before the save is tried
App_exit(old, qs, o) ==
    LET w == save_json(old, qs, o)
    IN  [exit |-> TRUE, file |-> w.file, kind |-> w.kind]


\* a bug: the message is set before the save is tried
App_save_message_first(msg, old, qs, now, o) ==
    LET w == save_json(old, qs, o)
    IN  [message |-> Confirmation(now), file |-> w.file, kind |-> w.kind]

\* App::save: the message is set after the save, which `?` leaves on failure
App_save(msg, old, qs, now, o) ==
    LET w == save_json(old, qs, o)
    IN  [ message |-> IF w.kind = "ok" THEN Confirmation(now) ELSE msg,
          file |-> w.file, kind |-> w.kind ]


\* a bug: the is_none test is dropped
classify_always_counted(qs, index, n, b) ==
    [ num_answered |-> increment_num_answered(n),
      questions |-> [qs EXCEPT ![index + 1].is_higher_order = Some(b)] ]

\* the two arms 't' and 'f' of the Classify branch
classify(qs, index, n, b) ==
    [ num_answered |-> IF is_none(At(qs, index).is_higher_order)
                       THEN increment_num_answered(n) ELSE n,
      questions |-> [qs EXCEPT ![index + 1].is_higher_order = Some(b)] ]


\* a bug: the is_none test is made after the assignment
answer_never_counted(qs, index, n, value) ==
    LET human_answer == get_answer_from_alphanum_option(value, At(qs, index))
    IN  IF is_some(human_answer)
        THEN [ num_answered |-> n,
               questions |-> [qs EXCEPT ![index + 1].human_answer = Some(human_answer.val)] ]
        ELSE [num_answered |-> n, questions |-> qs]


\* a bug: the option is written to the reference answer as well
answer_into_reference(qs, index, n, value) ==
    LET human_answer == get_answer_from_alphanum_option(value, At(qs, index))
    IN  IF is_some(human_answer)
        THEN [ num_answered |-> IF is_none(At(qs, index).human_answer)
                                THEN increment_num_answered(n) ELSE n,
               questions |-> [qs EXCEPT ![index + 1].human_answer = Some(human_answer.val),
                                        ![index + 1].answer = human_answer.val] ]
        ELSE [num_answered |-> n, questions |-> qs]

\* a bug: a symbol that resolves to no option clears the answer
answer_unresolved_clears(qs, index, n, value) ==
    LET human_answer == get_answer_from_alphanum_option(value, At(qs, index))
    IN  IF is_some(human_answer)
        THEN [ num_answered |-> IF is_none(At(qs, index).human_answer)
                                THEN increment_num_answered(n) ELSE n,
               questions |-> [qs EXCEPT ![index + 1].human_answer = Some(human_answer.val)] ]
        ELSE [ num_answered |-> n,
               questions |-> [qs EXCEPT ![index + 1].human_answer = None] ]

\* the arm '1' | ... | '6' of the Answer branch
answer(qs, index, n, value) ==
    LET human_answer == get_answer_from_alphanum_option(value, At(qs, index))
    IN  IF is_some(human_answer)
        THEN [ num_answered |-> IF is_none(At(qs, index).human_answer)
                                THEN increment_num_answered(n) ELSE n,
               questions |-> [qs EXCEPT ![index + 1].human_answer = Some(human_answer.val)] ]
        ELSE [num_answered |-> n, questions |-> qs]

(***************************************************************************)
(* One iteration of the loop of App::run.  terminal.draw calls App::ui,    *)
(* which indexes questions[question_index].                                *)
(***************************************************************************)
\* a bug: the loop never looks at the exit flag
loop_result_ignoring_exit(kind, ex) ==
    IF kind \in {"open_err", "write_err"} THEN "Err" ELSE "running"

\* App::run after handle_events: `?` returns the error, `while !self.exit`
\* ends the loop
loop_result(kind, ex) ==
    IF kind \in {"open_err", "write_err"} THEN "Err"
    ELSE IF ex THEN "Ok" ELSE "running"

Running == result = "running"
Drawn == Running /\ question_index < Len(questions)

\* App::ui panics on an index out of bounds (its letter_array lookup cannot:
\* the files above hold at most three options per question)
DrawPanic ==
    /\ Running
    /\ ~(question_index < Len(questions))
    /\ result' = "panic"
    /\ UNCHANGED << questions, question_index, mode, message, exit, num_answered,
                    file, event, save_result, played >>

\* terminal.draw or event::read fails: `?` ends the loop
IoError ==
    /\ Running
    /\ result' = "Err"
    /\ event' = "io_error"
    /\ save_result' = "none"
    /\ UNCHANGED << questions, question_index, mode, message, exit, num_answered, file >>
    /\ played' = Track(played, event')

\* an event that is no key press
OtherEvent ==
    /\ Drawn
    /\ event' = "Resize"
    /\ save_result' = "none"
    /\ UNCHANGED << questions, question_index, mode, message, exit, num_answered,
                    file, result >>
    /\ played' = Track(played, event')

\* KeyCode::Char('q')
KeyQuit ==
    /\ Drawn
    /\ \E o \in SaveOutcomes(questions) :
          LET r == App_exit(file, questions, o)
          IN  /\ exit' = r.exit
              /\ file' = r.file
              /\ save_result' = r.kind
              /\ result' = loop_result(r.kind, r.exit)
    /\ event' = "q"
    /\ UNCHANGED << questions, question_index, mode, message, num_answered >>
    /\ played' = Track(played, event')

\* KeyCode::Char('s')
KeySave ==
    /\ Drawn
    /\ \E now \in Times, o \in SaveOutcomes(questions) :
          LET r == App_save(message, file, questions, now, o)
          IN  /\ message' = r.message
              /\ file' = r.file
              /\ save_result' = r.kind
              /\ result' = loop_result(r.kind, exit)
    /\ event' = "s"
    /\ UNCHANGED << questions, question_index, mode, exit, num_answered >>
    /\ played' = Track(played, event')


\* a bug: navigation saves on the way
KeyLeft_autosave ==
    /\ Drawn
    /\ question_index' = decrement_index(question_index, Len(questions))
    /\ event' = "Left"
    /\ save_result' = "none"
    /\ file' = to_string_pretty(questions)
    /\ UNCHANGED << questions, mode, message, exit, num_answered, result >>
    /\ played' = Track(played, event')

\* KeyCode::Left
KeyLeft ==
    /\ Drawn
    /\ question_index' = decrement_index(question_index, Len(questions))
    /\ event' = "Left"
    /\ save_result' = "none"
    /\ UNCHANGED << questions, mode, message, exit, num_answered, file, result >>
    /\ played' = Track(played, event')


\* a bug: navigation clears the transient message
KeyRight_clearing_message ==
    /\ Drawn
    /\ question_index' = increment_index(question_index, Len(questions))
    /\ event' = "Right"
    /\ save_result' = "none"
    /\ message' = <<>>
    /\ UNCHANGED << questions, mode, exit, num_answered, file, result >>
    /\ played' = Track(played, event')

\* KeyCode::Right
KeyRight ==
    /\ Drawn
    /\ question_index' = increment_index(question_index, Len(questions))
    /\ event' = "Right"
    /\ save_result' = "none"
    /\ UNCHANGED << questions, mode, message, exit, num_answered, file, result >>
    /\ played' = Track(played, event')

ClassifyKeys == {"t", "f"}


\* a bug: the Classify branch is not guarded by the mode
KeyClassify_any_mode ==
    /\ Drawn
    /\ \E c \in ClassifyKeys :
          LET r == classify(questions, question_index, num_answered, c = "t")
          IN  /\ questions' = r.questions
              /\ num_answered' = r.num_answered
              /\ event' = c
    /\ save_result' = "none"
    /\ UNCHANGED << question_index, mode, message, exit, file, result >>
    /\ played' = Track(played, event')

\* KeyCode::Char('t') and KeyCode::Char('f')
KeyClassify ==
    /\ Drawn
    /\ \E c \in ClassifyKeys :
          LET r == IF mode = "Classify"
                   THEN classify(questions, question_index, num_answered, c = "t")
                   ELSE [num_answered |-> num_answered, questions |-> questions]
          IN  /\ questions' = r.questions
              /\ num_answered' = r.num_answered
              /\ event' = c
    /\ save_result' = "none"
    /\ UNCHANGED << question_index, mode, message, exit, file, result >>
    /\ played' = Track(played, event')

OptionKeys == {"1", "2", "3", "4", "5", "6"}

\* KeyCode::Char('1') ... KeyCode::Char('6')
KeyOption ==
    /\ Drawn
    /\ \E c \in OptionKeys :
          LET r == IF mode = "Answer"
                   THEN answer(questions, question_index, num_answered, c)
                   ELSE [num_answered |-> num_answered, questions |-> questions]
          IN  /\ questions' = r.questions
              /\ num_answered' = r.num_answered
              /\ event' = c
    /\ save_result' = "none"
    /\ UNCHANGED << question_index, mode, message, exit, file, result >>
    /\ played' = Track(played, event')

OtherKeys == {"7"}

\* any other key: both matches fall to `_ => {}`
KeyOther ==
    /\ Drawn
    /\ event' \in OtherKeys
    /\ save_result' = "none"
    /\ UNCHANGED << questions, question_index, mode, message, exit, num_answered,
                    file, result >>
    /\ played' = Track(played, event')

Next ==
    \/ DrawPanic
    \/ IoError
    \/ OtherEvent
    \/ KeyQuit
    \/ KeySave
    \/ KeyLeft
    \/ KeyRight
    \/ KeyClassify
    \/ KeyOption
    \/ KeyOther

Spec == Init /\ [][Next]_vars

(***************************************************************************)
(* The session of Scenario A: a list of three questions nobody answered,   *)
(* three options each, opened in Answer mode.  The session takes the       *)
(* commands that neither save nor quit.                                    *)
(***************************************************************************)
ScenarioObj(name) ==
    JObj(<< JMember("question", JStr(name)),
            JMember("options", JArr(<<JStr("a"), JStr("b"), JStr("c")>>)),
            JMember("answer", JStr("a")) >>)

ScenarioFile ==
    <<JOpen, ScenarioObj("s1"), ScenarioObj("s2"), ScenarioObj("s3"), JClose>>

InitScenario ==
    /\ file = ScenarioFile
    /\ Parsable(file)
    /\ mode = "Answer"
    /\ questions = from_str(file)
    /\ num_answered = get_num_answered(mode, questions)
    /\ question_index = 0
    /\ message = <<>>
    /\ exit = FALSE
    /\ event = "none"
    /\ save_result = "none"
    /\ result = "running"
    /\ played = 0

NextScenario ==
    \/ OtherEvent
    \/ KeyLeft
    \/ KeyRight
    \/ KeyClassify
    \/ KeyOption
    \/ KeyOther

SpecScenario == InitScenario /\ [][NextScenario]_vars


(***************************************************************************)
(* Vocabulary of the properties.                                           *)
(***************************************************************************)
\* the field the active mode annotates
ModeField(q) == IF mode = "Classify" THEN q.is_higher_order ELSE q.human_answer

\* the questions annotated for the active mode
Annotated == {i \in 1..Len(questions) : ModeField(questions[i]).some}

\* the events handle_events hands on or drops: every command of the session
CommandEvents == {"Resize", "q", "s", "Left", "Right"} \cup ClassifyKeys
                     \cup OptionKeys \cup OtherKeys

\* the position a shortcut symbol denotes
ShortcutPosition(c) == CHOOSE p \in 0..5 : <<"1", "2", "3", "4", "5", "6">>[p + 1] = c

\* the question on display
Current == questions[question_index + 1]

\* the launch file of the resumed two-question list
ResumedFile2 == <<JOpen>> \o ResumedObjs(2) \o <<JClose>>

(***************************************************************************)
(* C1: in every reachable state num_answered is the number of questions    *)
(* whose mode-relevant field is present, hence between 0 and the number    *)
(* of questions, from the load-time scan onward and for every launch file. *)
(***************************************************************************)
C1_CountMatchesAnnotations ==
    /\ num_answered = Cardinality(Annotated)
    /\ 0 <= num_answered
    /\ num_answered <= Len(questions)

\* a resumed file with one classification, completed in the session
C1_Witness ==
    /\ file = ResumedFile2
    /\ mode = "Classify"
    /\ event = "f"
    /\ question_index = 1
    /\ Annotated = {1, 2}
    /\ num_answered = 2

(***************************************************************************)
(* C2: after every command question_index is a position of the question    *)
(* list, and it is one in every state of a session on a non-empty list.    *)
(***************************************************************************)
C2_IndexInBounds ==
    (event \in CommandEvents \/ Len(questions) >= 1)
        => (0 <= question_index /\ question_index < Len(questions))

\* Previous has wrapped from the first to the last of two questions
C2_Witness ==
    /\ event = "Left"
    /\ Len(questions) = 2
    /\ question_index = 1

(***************************************************************************)
(* C3: an annotation command on a question whose mode-relevant field is    *)
(* absent adds exactly one to num_answered; on a question whose field is   *)
(* present it overwrites the value and leaves num_answered unchanged.      *)
(***************************************************************************)
C3_ClassifyStep ==
    (mode = "Classify" /\ event' \in ClassifyKeys)
        => /\ Current'.is_higher_order = Some(event' = "t")
           /\ num_answered' = IF Current.is_higher_order.some
                              THEN num_answered ELSE num_answered + 1

C3_AnswerStep ==
    (mode = "Answer" /\ event' \in OptionKeys
        /\ ShortcutPosition(event') < Len(Current.options))
        => /\ Current'.human_answer = Some(Current.options[ShortcutPosition(event') + 1])
           /\ num_answered' = IF Current.human_answer.some
                              THEN num_answered ELSE num_answered + 1

C3_CountedOnce == [][C3_ClassifyStep /\ C3_AnswerStep]_vars

\* a classification present at load is overwritten and not counted again
C3_Witness ==
    /\ file = ResumedFile2
    /\ mode = "Classify"
    /\ event = "f"
    /\ question_index = 0
    /\ Current.is_higher_order = Some(FALSE)
    /\ num_answered = 1

\* a first answer given in the session is counted
C3_WitnessFirst ==
    /\ file = ResumedFile2
    /\ mode = "Answer"
    /\ event = "2"
    /\ question_index = 1
    /\ Current.human_answer = Some("b")
    /\ num_answered = 2

(***************************************************************************)
(* C4: wraparound law.  Previous from 0 yields the last index, Next from   *)
(* the last index yields 0, elsewhere they step by one; Next then Previous *)
(* and Previous then Next return to the index they started from.           *)
(***************************************************************************)
C4_Step ==
    /\ event' = "Left"
          => question_index' = IF question_index = 0 THEN Len(questions) - 1
                               ELSE question_index - 1
    /\ event' = "Right"
          => question_index' = IF question_index = Len(questions) - 1 THEN 0
                               ELSE question_index + 1
    /\ event' \in {"Left", "Right"}
          => /\ decrement_index(increment_index(question_index, Len(questions)),
                                Len(questions)) = question_index
             /\ increment_index(decrement_index(question_index, Len(questions)),
                                Len(questions)) = question_index

C4_Wraparound == [][C4_Step]_vars

\* Next has wrapped from the last to the first of two questions
C4_Witness ==
    /\ event = "Right"
    /\ Len(questions) = 2
    /\ question_index = 0

(***************************************************************************)
(* C5: Quit always sets exit and tries a save; when the save fails the     *)
(* failure is the outcome of the loop and exit is still set.               *)
(***************************************************************************)
C5_QuitTerminates ==
    event = "q"
        => /\ exit
           /\ save_result # "none"
           /\ result # "running"
           /\ save_result # "ok" => result = "Err"

\* the write of the quit failed half way
C5_Witness ==
    /\ event = "q"
    /\ save_result = "write_err"
    /\ exit
    /\ result = "Err"

(***************************************************************************)
(* C6: a failed Save is not fatal: the session stays active with its       *)
(* annotations and the loop goes on taking commands.                       *)
(***************************************************************************)
C6_FailedSaveKeepsLoop ==
    (event = "s" /\ save_result # "ok") => (result = "running" /\ ~exit)

(***************************************************************************)
(* C7: a terminated session got there by Quit, whose save was the last     *)
(* thing the loop did; when that save succeeded the stored file reads back *)
(* as the question list in memory.                                         *)
(***************************************************************************)
C7_QuitSaves ==
    exit => /\ event = "q"
            /\ save_result # "none"
            /\ result # "running"
            /\ save_result = "ok" => (Parsable(file) /\ from_str(file) = questions)

\* quit after an answer the launch file did not hold
C7_Witness ==
    /\ exit
    /\ save_result = "ok"
    /\ result = "Ok"
    /\ mode = "Answer"
    /\ Len(questions) = 2
    /\ questions[2].human_answer = Some("b")
    /\ file # ResumedFile2

(***************************************************************************)
(* C8: a save replaces the stored file as a whole: after a successful save *)
(* the file is the serialization of the whole question list, and after a   *)
(* failed save it is the whole old content or the whole new content.       *)
(***************************************************************************)
C8_Step ==
    /\ save_result' = "ok" => file' = to_string_pretty(questions')
    /\ save_result' \in {"open_err", "write_err"}
          => (file' = file \/ file' = to_string_pretty(questions'))

C8_SaveIsWhole == [][C8_Step]_vars

(***************************************************************************)
(* C9: commands other than Quit and Save leave the stored file unchanged.  *)
(***************************************************************************)
C9_Step == event' \notin {"q", "s"} => file' = file

C9_OnlySaveWrites == [][C9_Step]_vars

\* an answer held in memory that the stored file does not hold
C9_Witness ==
    /\ event \in OptionKeys
    /\ mode = "Answer"
    /\ Current.human_answer = Some("a")
    /\ Parsable(file)
    /\ from_str(file) # questions

(***************************************************************************)
(* C10: Save sets message to the confirmation only when the save succeeds; *)
(* when it fails the error ends the loop and message keeps its value; no   *)
(* other command changes message.                                          *)
(***************************************************************************)
C10_Step ==
    /\ (event' = "s" /\ save_result' = "ok")
          => message' \in {Confirmation(now) : now \in Times}
    /\ (event' = "s" /\ save_result' # "ok")
          => (message' = message /\ result' = "Err")
    /\ event' # "s" => message' = message

C10_MessageOnlyOnSavedOk == [][C10_Step]_vars

\* a failed save after a successful one keeps the earlier confirmation
C10_Witness ==
    /\ event = "s"
    /\ save_result = "open_err"
    /\ message = Confirmation(1)

\* a failed first save leaves the message empty
C10_WitnessEmpty ==
    /\ event = "s"
    /\ save_result = "write_err"
    /\ message = <<>>


\* the session state the specification names: everything but the history
SessionUnchanged ==
    /\ questions' = questions
    /\ num_answered' = num_answered
    /\ question_index' = question_index
    /\ message' = message
    /\ exit' = exit
    /\ mode' = mode

\* the launch file of the fresh two-question list
FreshFile2 == <<JOpen>> \o FreshObjs(2) \o <<JClose>>

(***************************************************************************)
(* C11: in Answer mode a SelectOption whose symbol denotes a position at   *)
(* or past the option count of the current question leaves the session     *)
(* state unchanged and raises no error.                                    *)
(***************************************************************************)
C11_Step ==
    (mode = "Answer" /\ event' \in OptionKeys
        /\ ShortcutPosition(event') >= Len(Current.options))
        => (SessionUnchanged /\ result' = "running")

C11_UnresolvedIsNoOp == [][C11_Step]_vars

\* '3' on an answered question that has two options
C11_Witness ==
    /\ mode = "Answer"
    /\ event = "3"
    /\ Len(Current.options) = 2
    /\ Current.human_answer = Some("b")
    /\ num_answered = 1

(***************************************************************************)
(* C12: commands of the other mode and input outside the command surface   *)
(* are no-ops: 't'/'f' in Answer mode, '1'..'6' in Classify mode and every *)
(* unbound event leave the session state unchanged and raise no error.     *)
(***************************************************************************)
C12_Step ==
    (\/ mode = "Answer" /\ event' \in ClassifyKeys
     \/ mode = "Classify" /\ event' \in OptionKeys
     \/ event' \in OtherKeys \cup {"Resize"})
        => (SessionUnchanged /\ result' = "running")

C12_InapplicableIsNoOp == [][C12_Step]_vars

\* 't' in Answer mode on a question nobody classified
C12_Witness ==
    /\ mode = "Answer"
    /\ event = "t"
    /\ Current.is_higher_order = None

(***************************************************************************)
(* C13, as amended: Scenario A ends with question_index = 0, the second    *)
(* option as the answer of question 0, the FIRST option as the answer of   *)
(* question 1, and num_answered = 2.                                       *)
(***************************************************************************)
ScenarioPlayed == played = Len(Scenario) /\ Len(questions) = 3 /\ mode = "Answer"

C13_ScenarioA ==
    ScenarioPlayed
        => /\ question_index = 0
           /\ questions[1].human_answer = Some(questions[1].options[2])
           /\ questions[2].human_answer = Some(questions[2].options[1])
           /\ questions[3].human_answer = None
           /\ num_answered = 2

\* the scenario has been played to its end
C13_Witness == ScenarioPlayed /\ event = "2" /\ file = ScenarioFile

(***************************************************************************)
(* C13, as stated: Scenario A ends with question_index = 0, the second     *)
(* option as the answer of question 0, the third option as the answer of   *)
(* question 1, and num_answered = 2.                                       *)
(***************************************************************************)
C13_ScenarioA_AsStated ==
    ScenarioPlayed
        => /\ question_index = 0
           /\ questions[1].human_answer = Some(questions[1].options[2])
           /\ questions[2].human_answer = Some(questions[2].options[3])
           /\ num_answered = 2

(***************************************************************************)
(* C14: in every reachable state, the state built from the loaded file     *)
(* included, a human_answer that is present is one of the options of its   *)
(* question.                                                               *)
(***************************************************************************)
C14_AnswerIsAnOption ==
    \A i \in 1..Len(questions) :
        questions[i].human_answer.some
            => \E j \in 1..Len(questions[i].options) :
                  questions[i].options[j] = questions[i].human_answer.val

(***************************************************************************)
(* C15: no session runs on an empty question list: the list of every       *)
(* session state has at least one question.                                *)
(***************************************************************************)
C15_NeverEmpty == Len(questions) >= 1

(***************************************************************************)
(* C16: round trip.  The file a save has written reads back as the list    *)
(* that was saved, equal in every field and in order, an absent            *)
(* classification or answer as absent and a present one as present with    *)
(* its value.                                                              *)
(***************************************************************************)
C16_RoundTrip ==
    save_result = "ok"
        => /\ Parsable(file)
           /\ Len(from_str(file)) = Len(questions)
           /\ \A i \in 1..Len(questions) :
                 /\ from_str(file)[i].question = questions[i].question
                 /\ from_str(file)[i].options = questions[i].options
                 /\ from_str(file)[i].answer = questions[i].answer
                 /\ from_str(file)[i].is_higher_order.some = questions[i].is_higher_order.some
                 /\ from_str(file)[i].human_answer.some = questions[i].human_answer.some
                 /\ from_str(file)[i].is_higher_order = questions[i].is_higher_order
                 /\ from_str(file)[i].human_answer = questions[i].human_answer

\* a saved list that holds a present and an absent value of both fields
C16_Witness ==
    /\ event = "s"
    /\ save_result = "ok"
    /\ Len(questions) = 2
    /\ questions[1].is_higher_order = Some(FALSE)
    /\ questions[1].human_answer = Some("c")
    /\ questions[2].is_higher_order = None
    /\ questions[2].human_answer = None

(***************************************************************************)
(* C17: Terminated is terminal: once exit is set no step changes           *)
(* question_index, num_answered, a question or the stored file.            *)
(***************************************************************************)
C17_Step ==
    exit => /\ question_index' = question_index
            /\ num_answered' = num_answered
            /\ questions' = questions
            /\ file' = file
            /\ exit'

C17_TerminatedIsTerminal == [][C17_Step]_vars

\* a session that quit with its work saved
C17_Witness ==
    /\ exit
    /\ result = "Ok"
    /\ mode = "Classify"
    /\ question_index = 1
    /\ num_answered = 1

(***************************************************************************)
(* C18: Previous and Next change question_index alone: num_answered, the   *)
(* questions, mode, message and exit are as before.                        *)
(***************************************************************************)
C18_Step ==
    event' \in {"Left", "Right"}
        => /\ num_answered' = num_answered
           /\ questions' = questions
           /\ mode' = mode
           /\ message' = message
           /\ exit' = exit

C18_NavigationFrame == [][C18_Step]_vars

\* Next in a session that holds an annotation and a save confirmation
C18_Witness ==
    /\ event = "Right"
    /\ question_index = 1
    /\ num_answered = 1
    /\ message = Confirmation(2)

(***************************************************************************)
(* C19: an annotation command changes the mode-relevant field of the       *)
(* current question and nothing else of the questions: the other questions *)
(* are unchanged, no prompt, option list or reference answer changes, the  *)
(* field of the other mode is untouched, and mode, question_index and the  *)
(* length of the list stay as they are.                                    *)
(***************************************************************************)
C19_Step ==
    event' \in ClassifyKeys \cup OptionKeys
        => /\ Len(questions') = Len(questions)
           /\ mode' = mode
           /\ question_index' = question_index
           /\ \A i \in 1..Len(questions) :
                 /\ i # question_index + 1 => questions'[i] = questions[i]
                 /\ questions'[i].question = questions[i].question
                 /\ questions'[i].options = questions[i].options
                 /\ questions'[i].answer = questions[i].answer
                 /\ mode = "Classify"
                       => questions'[i].human_answer = questions[i].human_answer
                 /\ mode = "Answer"
                       => questions'[i].is_higher_order = questions[i].is_higher_order

C19_AnnotationFrame == [][C19_Step]_vars

\* an answer given to the second question of the resumed list
C19_Witness ==
    /\ file = ResumedFile2
    /\ mode = "Answer"
    /\ event = "1"
    /\ question_index = 1
    /\ questions[2].human_answer = Some("a")
    /\ questions[1] = from_str(ResumedFile2)[1]

(***************************************************************************)
(* C20: annotations are never removed: a classification or answer that is  *)
(* present stays present, so num_answered never decreases and stays at the *)
(* length of the list once it has reached it.                              *)
(***************************************************************************)
C20_Step ==
    /\ Len(questions') = Len(questions)
    /\ \A i \in 1..Len(questions) :
          /\ questions[i].is_higher_order.some => questions'[i].is_higher_order.some
          /\ questions[i].human_answer.some => questions'[i].human_answer.some
    /\ num_answered' >= num_answered
    /\ num_answered = Len(questions) => num_answered' = Len(questions)

C20_AnnotationsStay == [][C20_Step]_vars

\* a fresh list answered in full, with a command taken after that
C20_Witness ==
    /\ file = FreshFile2
    /\ mode = "Answer"
    /\ num_answered = 2
    /\ event = "3"

=============================================================================
